---- MODULE Spec2Model ----
(***************************************************************************)
(* State-machine model of clone_ea_org.py: the repository lister           *)
(* (fetch_all_repos), the clone/update worker (clone_one), the thread-pool *)
(* orchestration and the summary in main.                                  *)
(*                                                                         *)
(* Six specifications share the actions below:                             *)
(*   ListSpec   - fetch_all_repos called on every bounded listing          *)
(*   WorkerSpec - clone_one called directly, for every retries value       *)
(*   Spec       - main, run once                                           *)
(*   RerunSpec  - main with one worker, run again on the same destination  *)
(*   ClampSpec  - main on at most one repository, every --workers value    *)
(*   FlagsSpec  - main and clone_one under every combination of the flags  *)
(***************************************************************************)
EXTENDS Integers, Sequences, FiniteSets, TLC

\* ------------------------------------------------------------------ bounds
MaxRepos == 3        \* repositories in a listing given to fetch_all_repos
MaxUnits == 2        \* repositories in the organization when main runs
MaxRateHits == 2     \* rate-limited responses the server gives in one listing
MaxRetries == 3      \* largest retries value clone_one is called with
MaxRuns == 2         \* runs of main against the same destination
ArgSlack == 2        \* --workers values tried below 1 and above 16

\* ------------------------------------------------------- program constants
DefaultRetries == 2  \* clone_one(..., retries: int = 2)
InitialDelay == 5    \* delay = 5
MaxWorkers == 16     \* min(args.workers, 16)
ExitListingError == 2   \* sys.exit(2)
ExitUncaught == 1    \* interpreter exit status after an uncaught exception

\* --------------------------------------------------------- input universes
ArchivedValues == {"true", "false", "null"}   \* JSON values of repo["archived"]
GitExitCodes == {0, 1, 128}                   \* proc.wait() results, clone_one alone
PoolExitCodes == {0, 1}                       \* proc.wait() results, under main
FatalKinds == {"http_error", "not_a_list", "network_error"}
ArgsWorkers == {0, 2}                         \* --workers values tried by Spec
\* --workers values around both ends of the clamp, and the value 100
ClampArgs == ((0 - ArgSlack)..(MaxWorkers + ArgSlack)) \cup {100}

NoName == 0          \* a result line that carries no repository name
NoCode == -1         \* a result line that carries no exit code

Max(a, b) == IF a >= b THEN a ELSE b
Min(a, b) == IF a <= b THEN a ELSE b

RECURSIVE SumSeq(_)
SumSeq(s) == IF s = <<>> THEN 0 ELSE s[1] + SumSeq(Tail(s))

RECURSIVE Pow2(_)
Pow2(k) == IF k = 0 THEN 1 ELSE 2 * Pow2(k - 1)

RECURSIVE Flatten(_)
Flatten(ps) == IF ps = <<>> THEN <<>> ELSE ps[1] \o Flatten(Tail(ps))

Range(s) == {s[i] : i \in 1..Len(s)}

\* The organization's catalogue: n repositories with unique names 1..n in
\* ascending name order, each with some archived value.
Catalogue(n, flags) ==
    {[i \in 1..n |-> [name |-> i, archived |-> f[i]]] : f \in [1..n -> flags]}

\* Every way the server can cut a catalogue into consecutive non-empty pages.
RECURSIVE Splits(_)
Splits(s) ==
    IF s = <<>> THEN {<<>>}
    ELSE UNION {{<<SubSeq(s, 1, k)>> \o rest :
                    rest \in Splits(SubSeq(s, k + 1, Len(s)))} : k \in 1..Len(s)}

Listings(max, flags) ==
    UNION {UNION {Splits(c) : c \in Catalogue(n, flags)} : n \in 0..max}

\* The listings main is run on: n repositories on one page, of which none,
\* the last one or all are archived.
OnePage(n, k) ==
    IF n = 0 THEN <<>>
    ELSE <<[i \in 1..n |-> [name |-> i,
                             archived |-> IF i > n - k THEN "true" ELSE "false"]]>>

PipelineListings(max) ==
    {OnePage(n, k) : n \in 0..max, k \in {0, 1, max}}

VARIABLES
    \* command line and environment
    include_archived,   \* args.include_archived
    mirror,             \* args.mirror
    args_workers,       \* args.workers
    retries,            \* clone_one's retries parameter
    use_ssh,            \* args.ssh
    full,               \* args.full
    shallow,            \* shallow (FALSE until main computes it)
    pages,              \* what the listing API serves: page n is pages[n]
    fs,                 \* names whose target path exists in dest_dir
    run,                \* which run of the pipeline this is
    prev_ok,            \* names whose outcome in the previous run was a success
    \* fetch_all_repos
    lpc,                \* "request" | "returned" | "raised"
    page,               \* page
    repos,              \* repos
    reqlog,             \* requests sent so far: <<[page, resp]>>
    \* main
    mpc,                \* "fetch" | "submit" | "as_completed" | "collect" | "exited"
    selected,           \* selected (names)
    workers,            \* workers (0 until the pool is created)
    results,            \* results
    collected,          \* unit index behind each entry of results
    first_batch,        \* futures as_completed found finished when called, not yet yielded
    pbar_n,             \* pbar.n
    ok,                 \* ok
    failed,             \* failed
    log,                \* lines written to clone_summary_<ts>.log
    exit_code,          \* process exit status (-1 while running)
    \* the pool's units of work
    task,               \* per unit: position in task/clone_one and its locals
    completed           \* unit indices in the order their futures finished

listerVars == <<lpc, page, repos, reqlog>>
argVars == <<include_archived, mirror, args_workers, retries, pages, use_ssh, full>>
configVars == <<argVars, shallow>>
envVars == <<fs, run, prev_ok>>
mainVars == <<mpc, selected, workers, results, collected, first_batch,
              pbar_n, ok, failed, log, exit_code>>
poolVars == <<task, completed>>
vars == <<configVars, envVars, listerVars, mainVars, poolVars>>

\* =========================================================================
\* fetch_all_repos
\* =========================================================================

\* if not include_archived and repo.get("archived"): continue
Truthy(v) == v = "true"
\* (mutant) only an explicit false counts as not archived
KeepOnlyFalse(repo, incl) == incl \/ repo.archived = "false"

Keep(repo, incl) == ~(~incl /\ Truthy(repo.archived))

RECURSIVE AppendKept(_, _, _)
AppendKept(acc, data, incl) ==
    IF data = <<>> THEN acc
    ELSE AppendKept(IF Keep(data[1], incl) THEN Append(acc, data[1]) ELSE acc,
                    Tail(data), incl)

\* The JSON array the server returns for page n of the listing.
PageData(n) == IF n \in 1..Len(pages) THEN pages[n] ELSE <<>>

RateHits == Cardinality({k \in 1..Len(reqlog) : reqlog[k].resp = "rate_limited"})

\* (mutant) a rate-limited page is given up and the next one is asked for
RateLimitedSkips ==
    /\ mpc = "fetch" /\ lpc = "request"
    /\ RateHits < MaxRateHits
    /\ reqlog' = Append(reqlog, [page |-> page, resp |-> "rate_limited"])
    /\ page' = page + 1
    /\ UNCHANGED <<lpc, repos>>
    /\ UNCHANGED <<configVars, envVars, mainVars, poolVars>>

\* 403 with "rate limit" in the body: sleep, then continue with the same page.
RateLimited ==
    /\ mpc = "fetch" /\ lpc = "request"
    /\ RateHits < MaxRateHits
    /\ reqlog' = Append(reqlog, [page |-> page, resp |-> "rate_limited"])
    /\ UNCHANGED <<lpc, page, repos>>
    /\ UNCHANGED <<configVars, envVars, mainVars, poolVars>>

\* requests.get raises, raise_for_status raises, or the body is not a list.
RaiseFatal ==
    /\ mpc = "fetch" /\ lpc = "request"
    /\ \E kind \in FatalKinds :
          reqlog' = Append(reqlog, [page |-> page, resp |-> kind])
    /\ lpc' = "raised"
    /\ UNCHANGED <<page, repos>>
    /\ UNCHANGED <<configVars, envVars, mainVars, poolVars>>

\* A 200 response with an empty array: break and return repos.
EmptyPage ==
    /\ mpc = "fetch" /\ lpc = "request"
    /\ PageData(page) = <<>>
    /\ reqlog' = Append(reqlog, [page |-> page, resp |-> "empty"])
    /\ lpc' = "returned"
    /\ UNCHANGED <<page, repos>>
    /\ UNCHANGED <<configVars, envVars, mainVars, poolVars>>

\* (mutant) the page counter is not advanced
AppendPageNoAdvance ==
    /\ mpc = "fetch" /\ lpc = "request"
    /\ PageData(page) # <<>>
    /\ reqlog' = Append(reqlog, [page |-> page, resp |-> "data"])
    /\ repos' = AppendKept(repos, PageData(page), include_archived)
    /\ UNCHANGED <<lpc, page>>
    /\ UNCHANGED <<configVars, envVars, mainVars, poolVars>>

\* A 200 response with a non-empty array: filter, append, page += 1.
AppendPage ==
    /\ mpc = "fetch" /\ lpc = "request"
    /\ PageData(page) # <<>>
    /\ reqlog' = Append(reqlog, [page |-> page, resp |-> "data"])
    /\ repos' = AppendKept(repos, PageData(page), include_archived)
    /\ page' = page + 1
    /\ UNCHANGED lpc
    /\ UNCHANGED <<configVars, envVars, mainVars, poolVars>>

ListNext == RateLimited \/ RaiseFatal \/ EmptyPage \/ AppendPage

\* State at the call of fetch_all_repos, before the first request.
ListerStart ==
    /\ lpc = "request" /\ page = 1 /\ repos = <<>> /\ reqlog = <<>>

MainStart ==
    /\ mpc = "fetch" /\ selected = <<>> /\ workers = 0
    /\ results = <<>> /\ collected = <<>> /\ first_batch = {}
    /\ pbar_n = 0 /\ ok = 0 /\ failed = <<>> /\ log = <<>> /\ exit_code = -1
    /\ task = <<>> /\ completed = <<>>

ListInit ==
    /\ include_archived \in BOOLEAN
    /\ pages \in Listings(MaxRepos, ArchivedValues)
    /\ mirror = FALSE /\ args_workers = 2 /\ retries = DefaultRetries
    /\ use_ssh = FALSE /\ full = FALSE /\ shallow = FALSE
    /\ fs = {} /\ run = 1 /\ prev_ok = {}
    /\ ListerStart /\ MainStart

ListSpec == ListInit /\ [][ListNext]_vars

\* =========================================================================
\* clone_one
\* =========================================================================

\* target = os.path.join(dest_dir, name + (".git" if mirror else ""))
Target(name, mir) == <<name, mir>>

\* (mutant) the existence test forgets the .git suffix of a mirror
TargetExistsNoSuffix(name) == Target(name, FALSE) \in fs

\* os.path.exists(target)
TargetExists(name) == Target(name, mirror) \in fs

Outcome(kind, name) == [kind |-> kind, name |-> name, code |-> NoCode, exc |-> FALSE]
NoOutcome == [kind |-> "none", name |-> NoName, code |-> NoCode, exc |-> FALSE]
\* An exception leaving clone_one; its text names the failure, not the repository.
Raised == [kind |-> "raised", name |-> NoName, code |-> NoCode, exc |-> TRUE]

\* return f"updated: {name}", f"cloned: {name}", f"failed: {name}"
UpdatedOutcome(name) == Outcome("updated", name)
ClonedOutcome(name) == Outcome("cloned", name)
FailedOutcome(name, code) == Outcome("failed", name)

NewTask == [pc |-> "unsubmitted", attempt |-> 0, delay |-> 0, sleeps |-> <<>>,
            code |-> NoCode, out |-> NoOutcome, existed |-> FALSE,
            nclone |-> 0, upd |-> "none", cmds |-> <<>>, bar |-> FALSE]

\* url = repo["ssh_url"] if use_ssh else repo["clone_url"]
Url(name, ssh) == <<IF ssh THEN "ssh" ELSE "https", name>>
NoUrl == <<"none", NoName>>

\* ["git", "remote", "update", "--prune"] or ["git", "fetch", "--all", "--prune"]
UpdateArgv(mir) ==
    IF mir THEN <<"git", "remote", "update", "--prune">>
    ELSE <<"git", "fetch", "--all", "--prune">>

\* ["git", "pull", "--ff-only"]
PullArgv == <<"git", "pull", "--ff-only">>

\* (mutant) the depth options are added whenever shallow is set
CloneArgvDepthInMirror(shal, mir) ==
    <<"git", "clone">> \o (IF mir THEN <<"--mirror">> ELSE <<>>)
        \o (IF shal THEN <<"--depth", "1", "--no-single-branch">> ELSE <<>>)

\* cmd = ["git", "clone"], then --mirror, then the depth options; url and
\* target, which end cmd, are the fields url and dir of the call.
CloneArgv(shal, mir) ==
    <<"git", "clone">> \o (IF mir THEN <<"--mirror">> ELSE <<>>)
        \o (IF shal /\ ~mir THEN <<"--depth", "1", "--no-single-branch">> ELSE <<>>)

\* One call of run_git_cmd: its arguments, the url it names (clone only), the
\* target (cwd of an update command, last argument of a clone), and how it
\* ended: an exit code, or an exception.
GitCall(argv, url, dir, code, exc) ==
    [argv |-> argv, url |-> url, dir |-> dir, code |-> code, exc |-> exc]

UpdateCall(name, code, exc) ==
    GitCall(UpdateArgv(mirror), NoUrl, Target(name, mirror), code, exc)
PullCall(name, code, exc) ==
    GitCall(PullArgv, NoUrl, Target(name, mirror), code, exc)
CloneCall(name, code, exc) ==
    GitCall(CloneArgv(shallow, mirror), Url(name, use_ssh), Target(name, mirror),
            code, exc)

\* The unit's record after one more call of run_git_cmd.
Ran(t, call) == [t EXCEPT !.cmds = Append(@, call)]

Units == DOMAIN task
NameOf(i) == selected[i]

\* (mutant) the retry test is off by one
RetryAllowedStrict(attempt, limit) == attempt < limit

\* while attempt <= retries / if attempt <= retries
RetryAllowed(attempt, limit) == attempt <= limit

\* (mutant) the delay is never doubled
NextDelayConstant(d) == d

\* delay *= 2
NextDelay(d) == d * 2

\* attempt = 0; delay = 5, then the first run_git_cmd(cmd) is started
EnterClonePath(t) == [t EXCEPT !.pc = "clone", !.attempt = 0, !.delay = InitialDelay]

Running == {i \in Units : task[i].pc \in {"update", "pull", "clone", "sleep", "returned"}}
Queued == {i \in Units : task[i].pc = "queued"}

\* A pool thread that is free has taken a unit from the queue, oldest first,
\* and now calls task(r), which calls clone_one: name, url and target are
\* computed and os.path.exists is tested. The threads that took the older
\* units still queued have not entered task(r) yet and each holds one worker,
\* so a unit can start before an older one, but only while a worker is left
\* for each older unit.
TaskStart(i) ==
    /\ mpc \in {"submit", "as_completed", "collect"}
    /\ i \in Queued
    /\ Cardinality(Running) + Cardinality({j \in Queued : j < i}) < workers
    /\ task' = [task EXCEPT ![i] =
          IF TargetExists(NameOf(i))
          THEN [@ EXCEPT !.pc = "update", !.existed = TRUE]
          ELSE EnterClonePath(@)]
    /\ UNCHANGED <<completed, configVars, envVars, listerVars, mainVars>>

\* (mutant) an update command that exits nonzero fails the unit at once
UpdateDoneFailsAtOnce(i, code) ==
    /\ task[i].pc = "update"
    /\ task' = [task EXCEPT ![i] =
          LET t == Ran(@, UpdateCall(NameOf(i), code, FALSE)) IN
          IF code = 0
          THEN IF mirror
               THEN [t EXCEPT !.pc = "returned", !.code = code, !.upd = "ok",
                              !.out = UpdatedOutcome(NameOf(i))]
               ELSE [t EXCEPT !.pc = "pull", !.code = code]
          ELSE [t EXCEPT !.pc = "returned", !.code = code, !.upd = "nonzero",
                         !.out = FailedOutcome(NameOf(i), code)]]
    /\ UNCHANGED <<completed, configVars, envVars, listerVars, mainVars>>

\* git remote update --prune (mirror) or git fetch --all --prune exits.
UpdateDone(i, code) ==
    /\ task[i].pc = "update"
    /\ task' = [task EXCEPT ![i] =
          LET t == Ran(@, UpdateCall(NameOf(i), code, FALSE)) IN
          IF code = 0
          THEN IF mirror
               THEN [t EXCEPT !.pc = "returned", !.code = code, !.upd = "ok",
                              !.out = UpdatedOutcome(NameOf(i))]
               ELSE [t EXCEPT !.pc = "pull", !.code = code]
          ELSE [EnterClonePath(t) EXCEPT !.code = code, !.upd = "nonzero"]]
    /\ UNCHANGED <<completed, configVars, envVars, listerVars, mainVars>>

\* (mutant) a pull that exits nonzero sends the unit to the clone path
PullDoneChecksCode(i, code) ==
    /\ task[i].pc = "pull"
    /\ task' = [task EXCEPT ![i] =
          LET t == Ran(@, PullCall(NameOf(i), code, FALSE)) IN
          IF code = 0
          THEN [t EXCEPT !.pc = "returned", !.upd = "ok", !.out = UpdatedOutcome(NameOf(i))]
          ELSE [EnterClonePath(t) EXCEPT !.code = code, !.upd = "nonzero"]]
    /\ UNCHANGED <<completed, configVars, envVars, listerVars, mainVars>>

\* git pull --ff-only exits; its status is discarded.
PullDone(i, code) ==
    /\ task[i].pc = "pull"
    /\ task' = [task EXCEPT ![i] =
          [Ran(@, PullCall(NameOf(i), code, FALSE)) EXCEPT
              !.pc = "returned", !.upd = "ok", !.out = UpdatedOutcome(NameOf(i))]]
    /\ UNCHANGED <<completed, configVars, envVars, listerVars, mainVars>>

\* (mutant) the except clause reports the unit as failed
UpdateRaiseFails(i) ==
    /\ task[i].pc \in {"update", "pull"}
    /\ task' = [task EXCEPT ![i] =
          LET call == IF task[i].pc = "pull"
                      THEN PullCall(NameOf(i), NoCode, TRUE)
                      ELSE UpdateCall(NameOf(i), NoCode, TRUE)
          IN [Ran(@, call) EXCEPT !.pc = "returned", !.upd = "raised",
                                  !.out = FailedOutcome(NameOf(i), NoCode)]]
    /\ UNCHANGED <<completed, configVars, envVars, listerVars, mainVars>>

\* (mutant) the update commands run outside any try block
UpdateRaiseEscapes(i) ==
    /\ task[i].pc \in {"update", "pull"}
    /\ task' = [task EXCEPT ![i] = [@ EXCEPT !.pc = "returned", !.out = Raised]]
    /\ UNCHANGED <<completed, configVars, envVars, listerVars, mainVars>>

\* run_git_cmd raises inside the try block (Popen cannot start git, the
\* output cannot be read): except Exception: pass, then the clone path.
UpdateRaise(i) ==
    /\ task[i].pc \in {"update", "pull"}
    /\ task' = [task EXCEPT ![i] =
          LET call == IF task[i].pc = "pull"
                      THEN PullCall(NameOf(i), NoCode, TRUE)
                      ELSE UpdateCall(NameOf(i), NoCode, TRUE)
          IN [EnterClonePath(Ran(@, call)) EXCEPT !.upd = "raised"]]
    /\ UNCHANGED <<completed, configVars, envVars, listerVars, mainVars>>

\* One pass of the retry loop: git clone exits with `code`.
AfterClone(t, name, code) ==
    IF code = 0
    THEN [t EXCEPT !.pc = "returned", !.code = code, !.nclone = @ + 1,
                   !.out = ClonedOutcome(name)]
    ELSE IF RetryAllowed(t.attempt + 1, retries)
         THEN [t EXCEPT !.pc = "sleep", !.code = code, !.nclone = @ + 1,
                        !.attempt = @ + 1]
         ELSE [t EXCEPT !.pc = "returned", !.code = code, !.nclone = @ + 1,
                        !.attempt = @ + 1, !.out = FailedOutcome(name, code)]

\* code = run_git_cmd(cmd) returns. A clone that exits zero has created the
\* target; one that exits nonzero may have left it behind (a checkout that
\* fails, a hook that fails), and clone_one never removes it.
CloneDone(i, code) ==
    /\ task[i].pc = "clone"
    /\ RetryAllowed(task[i].attempt, retries)
    /\ task' = [task EXCEPT ![i] =
          AfterClone(Ran(@, CloneCall(NameOf(i), code, FALSE)), NameOf(i), code)]
    /\ fs' \in IF code = 0 THEN {fs \cup {Target(NameOf(i), mirror)}}
              ELSE {fs, fs \cup {Target(NameOf(i), mirror)}}
    /\ UNCHANGED <<completed, configVars, run, prev_ok, listerVars, mainVars>>

\* run_git_cmd(cmd) raises in the retry loop: nothing catches it in clone_one.
\* Popen may have failed, and then no git ran; or git was started and
\* reading its output raised: git is neither waited for nor stopped, and may
\* have created the target by the time clone_one ends.
CloneRaise(i) ==
    /\ task[i].pc = "clone"
    /\ RetryAllowed(task[i].attempt, retries)
    /\ task' = [task EXCEPT ![i] =
          [Ran(@, CloneCall(NameOf(i), NoCode, TRUE)) EXCEPT
              !.pc = "returned", !.nclone = @ + 1, !.out = Raised]]
    /\ fs' \in {fs, fs \cup {Target(NameOf(i), mirror)}}
    /\ UNCHANGED <<completed, configVars, run, prev_ok, listerVars, mainVars>>

\* time.sleep(delay) returns; delay *= 2; next pass of the loop.
SleepDone(i) ==
    /\ task[i].pc = "sleep"
    /\ task' = [task EXCEPT ![i] =
          [@ EXCEPT !.pc = "clone", !.sleeps = Append(@, task[i].delay),
                    !.delay = NextDelay(@)]]
    /\ UNCHANGED <<completed, configVars, envVars, listerVars, mainVars>>

WorkerNext ==
    \/ \E i \in Units : TaskStart(i)
    \/ \E i \in Units, code \in GitExitCodes : UpdateDone(i, code)
    \/ \E i \in Units, code \in GitExitCodes : PullDone(i, code)
    \/ \E i \in Units : UpdateRaise(i)
    \/ \E i \in Units, code \in GitExitCodes : CloneDone(i, code)
    \/ \E i \in Units : CloneRaise(i)
    \/ \E i \in Units : SleepDone(i)

\* clone_one called once, directly, on repository 1.
WorkerInit ==
    /\ include_archived = FALSE
    /\ pages = <<<<[name |-> 1, archived |-> "false"]>>>>
    /\ mirror \in BOOLEAN
    /\ args_workers = 1
    /\ retries \in 0..MaxRetries
    /\ use_ssh \in BOOLEAN /\ full = FALSE /\ shallow \in BOOLEAN
    /\ fs \in SUBSET {Target(1, TRUE), Target(1, FALSE)}
    /\ run = 1 /\ prev_ok = {}
    /\ lpc = "returned" /\ page = 0 /\ repos = pages[1] /\ reqlog = <<>>
    /\ mpc = "collect" /\ selected = <<1>> /\ workers = 1
    /\ results = <<>> /\ collected = <<>> /\ first_batch = {}
    /\ pbar_n = 0 /\ ok = 0 /\ failed = <<>> /\ log = <<>> /\ exit_code = -1
    /\ task = <<[NewTask EXCEPT !.pc = "queued"]>> /\ completed = <<>>

WorkerSpec == WorkerInit /\ [][WorkerNext]_vars

\* =========================================================================
\* main
\* =========================================================================

\* (mutant) min written as max
PoolSizeMaxMax(w) == Max(1, Max(w, MaxWorkers))

\* (mutant) the lower end of the clamp is forgotten
PoolSizeNoFloor(w) == Min(w, MaxWorkers)

\* workers = max(1, min(args.workers, 16))
PoolSize(w) == Max(1, Min(w, MaxWorkers))

\* (mutant) every entry of selected is built from the first repository
SelectRepeatsFirst(rs) == [k \in 1..Len(rs) |-> rs[1].name]

\* selected.append({"name": r.get("name"), ...}) for r in repos
RECURSIVE Select(_)
Select(rs) == IF rs = <<>> THEN <<>> ELSE <<rs[1].name>> \o Select(Tail(rs))

\* res = fut.result(); results.append(res)
\* except Exception as e: results.append(f"failed: {e}")
ResultLine(out) ==
    IF out.kind = "raised"
    THEN [kind |-> "failed", name |-> NoName, code |-> NoCode, exc |-> TRUE]
    ELSE out

\* (mutant) the except clause appends nothing
AppendResultDropsRaised(rs, out) == IF out.kind = "raised" THEN rs ELSE Append(rs, out)

\* One pass of the loop body over as_completed.
AppendResult(rs, out) == Append(rs, ResultLine(out))

\* r.startswith(("cloned:", "updated:")) and r.startswith("failed:")
IsSuccess(line) == line.kind \in {"cloned", "updated"}
IsFailure(line) == line.kind = "failed"

RECURSIVE FilterFailed(_)
FilterFailed(rs) ==
    IF rs = <<>> THEN <<>>
    ELSE (IF IsFailure(rs[1]) THEN <<rs[1]>> ELSE <<>>) \o FilterFailed(Tail(rs))

\* (mutant) only the cloned: prefix is counted
CountOkClonedOnly(rs) == Cardinality({k \in 1..Len(rs) : rs[k].kind = "cloned"})

\* ok = sum(1 for r in results if r.startswith(("cloned:", "updated:")))
CountOk(rs) == Cardinality({k \in 1..Len(rs) : IsSuccess(rs[k])})

\* (mutant) the listing error is reported and main returns normally
MainFetchErrorReturns ==
    /\ mpc = "fetch" /\ lpc = "raised"
    /\ mpc' = "exited" /\ exit_code' = 0
    /\ UNCHANGED <<selected, workers, results, collected, first_batch, pbar_n, ok,
                   failed, log>>
    /\ UNCHANGED <<configVars, envVars, listerVars, poolVars>>

\* except Exception as e: print(...); sys.exit(2)
MainFetchError ==
    /\ mpc = "fetch" /\ lpc = "raised"
    /\ mpc' = "exited" /\ exit_code' = ExitListingError
    /\ UNCHANGED <<selected, workers, results, collected, first_batch, pbar_n, ok,
                   failed, log>>
    /\ UNCHANGED <<configVars, envVars, listerVars, poolVars>>

\* (mutant) the empty listing is not tested: the pool is created before the
\* run ends
MainNoReposCreatesPool ==
    /\ mpc = "fetch" /\ lpc = "returned" /\ repos = <<>>
    /\ workers' = PoolSize(args_workers)
    /\ mpc' = "exited" /\ exit_code' = 0
    /\ UNCHANGED <<selected, results, collected, first_batch, pbar_n, ok, failed, log>>
    /\ UNCHANGED <<configVars, envVars, listerVars, poolVars>>

\* if not repos: print("No repositories found..."); return
MainNoRepos ==
    /\ mpc = "fetch" /\ lpc = "returned" /\ repos = <<>>
    /\ mpc' = "exited" /\ exit_code' = 0
    /\ UNCHANGED <<selected, workers, results, collected, first_batch, pbar_n, ok,
                   failed, log>>
    /\ UNCHANGED <<configVars, envVars, listerVars, poolVars>>

\* shallow = not args.full and not args.mirror
Shallow(f, mir) == ~f /\ ~mir

\* selected, total, shallow, results = [], the progress bar, workers and the
\* executor.
\* fetch_all_repos has returned: its page counter is gone with its frame.
MainStartPool ==
    /\ mpc = "fetch" /\ lpc = "returned" /\ repos # <<>>
    /\ selected' = Select(repos)
    /\ shallow' = Shallow(full, mirror)
    /\ workers' = PoolSize(args_workers)
    /\ task' = [i \in 1..Len(repos) |-> NewTask]
    /\ mpc' = "submit"
    /\ page' = 0 /\ reqlog' = <<>>
    /\ UNCHANGED <<lpc, repos, completed>>
    /\ UNCHANGED <<results, collected, first_batch, pbar_n, ok, failed, log, exit_code>>
    /\ UNCHANGED <<argVars, envVars>>

Unsubmitted == {i \in Units : task[i].pc = "unsubmitted"}
Finished == {i \in Units : task[i].pc = "finished"}

\* futures = [ex.submit(task, r) for r in selected]: one submit, in input order.
Submit(i) ==
    /\ mpc = "submit"
    /\ i \in Unsubmitted /\ \A j \in Unsubmitted : i <= j
    /\ task' = [task EXCEPT ![i].pc = "queued"]
    /\ mpc' = IF Unsubmitted = {i} THEN "as_completed" ELSE "submit"
    /\ UNCHANGED <<selected, workers, results, collected, first_batch, pbar_n, ok,
                   failed, log, exit_code>>
    /\ UNCHANGED <<completed, configVars, envVars, listerVars>>

\* out = clone_one(...) has returned inside task(r): pbar.update(1). Nothing
\* of clone_one's frame is left but its result; the future is not done yet.
PbarUpdate(i) ==
    /\ mpc \in {"submit", "as_completed", "collect"}
    /\ task[i].pc = "returned" /\ ~task[i].bar
    /\ task[i].out.kind # "raised"
    /\ pbar_n' = pbar_n + 1
    /\ task' = [task EXCEPT ![i] =
          [NewTask EXCEPT !.pc = "returned", !.out = task[i].out, !.bar = TRUE]]
    /\ UNCHANGED <<mpc, selected, workers, results, collected, first_batch, ok,
                   failed, log, exit_code>>
    /\ UNCHANGED <<completed, configVars, envVars, listerVars>>

\* task(r) has returned after pbar.update(1), or clone_one's exception has
\* left it before pbar.update(1): the pool sets the future's result or
\* exception and the future is done.
TaskReturn(i) ==
    /\ mpc \in {"submit", "as_completed", "collect"}
    /\ task[i].pc = "returned"
    /\ task[i].bar \/ task[i].out.kind = "raised"
    /\ task' = [task EXCEPT ![i] = [NewTask EXCEPT !.pc = "finished", !.out = task[i].out]]
    /\ completed' = Append(completed, i)
    /\ UNCHANGED <<configVars, envVars, listerVars, mainVars>>

\* concurrent.futures.as_completed(futures) is called: the futures already
\* finished are handed out first, in no particular order.
AsCompleted ==
    /\ mpc = "as_completed"
    /\ first_batch' = Finished
    /\ mpc' = "collect"
    /\ UNCHANGED <<selected, workers, results, collected, pbar_n, ok, failed, log,
                   exit_code>>
    /\ UNCHANGED <<configVars, envVars, listerVars, poolVars>>

Collected == Range(collected)

\* (mutant) any finished future may be yielded next
NextYieldAny(i) == i \in Finished \ Collected

\* The future as_completed yields next: any of the first batch, then the
\* others in the order they finish.
NextYield(i) ==
    /\ i \in Finished \ Collected
    /\ IF first_batch # {}
       THEN i \in first_batch
       ELSE \A k \in 1..Len(completed) :
               completed[k] \in Collected \/ \E m \in 1..k : completed[m] = i

\* One pass of the for loop over as_completed.
Collect(i) ==
    /\ mpc = "collect"
    /\ NextYield(i)
    /\ results' = AppendResult(results, task[i].out)
    /\ collected' = Append(collected, i)
    /\ first_batch' = first_batch \ {i}
    /\ UNCHANGED <<mpc, selected, workers, pbar_n, ok, failed, log, exit_code>>
    /\ UNCHANGED <<configVars, envVars, listerVars, poolVars>>

\* The loop and both with blocks are left, the summary is printed and the
\* log is written; main returns.
MainSummary ==
    /\ mpc = "collect" /\ Collected = Units
    /\ ok' = CountOk(results)
    /\ failed' = FilterFailed(results)
    /\ log' = results
    /\ mpc' = "exited" /\ exit_code' = 0
    /\ UNCHANGED <<selected, workers, results, collected, first_batch, pbar_n>>
    /\ UNCHANGED <<configVars, envVars, listerVars, poolVars>>

\* A line of which only a proper prefix reached the file.
Fragment(line) == [line EXCEPT !.kind = "fragment"]

\* What a failed write can leave in the file: the first k of the lines, for
\* some k short of all of them, then possibly a fragment of the next one.
PartialLogs(rs) ==
    {SubSeq(rs, 1, k) : k \in 0..(Len(rs) - 1)}
        \cup {Append(SubSeq(rs, 1, k), Fragment(rs[k + 1])) : k \in 0..(Len(rs) - 1)}

\* open(log_path, "w"), f.write or closing the file raises: nothing catches
\* it in main. The file is absent or empty, or holds the part of the lines
\* that was written before the error.
MainLogError ==
    /\ mpc = "collect" /\ Collected = Units
    /\ ok' = CountOk(results)
    /\ failed' = FilterFailed(results)
    /\ log' \in PartialLogs(results)
    /\ mpc' = "exited" /\ exit_code' = ExitUncaught
    /\ UNCHANGED <<selected, workers, results, collected, first_batch, pbar_n>>
    /\ UNCHANGED <<configVars, envVars, listerVars, poolVars>>

SucceededNames == {results[k].name : k \in {m \in 1..Len(results) : IsSuccess(results[m])}}

\* The command is run again with the same arguments and destination.
RunAgain ==
    /\ mpc = "exited" /\ exit_code = 0 /\ selected # <<>>
    /\ run < MaxRuns
    /\ run' = run + 1
    /\ prev_ok' = SucceededNames
    /\ lpc' = "request" /\ page' = 1 /\ repos' = <<>> /\ reqlog' = <<>>
    /\ mpc' = "fetch" /\ selected' = <<>> /\ workers' = 0
    /\ results' = <<>> /\ collected' = <<>> /\ first_batch' = {}
    /\ pbar_n' = 0 /\ ok' = 0 /\ failed' = <<>> /\ log' = <<>> /\ exit_code' = -1
    /\ task' = <<>> /\ completed' = <<>>
    /\ shallow' = FALSE
    /\ UNCHANGED <<fs, argVars>>

Next ==
    \/ RateLimited
    \/ RaiseFatal
    \/ EmptyPage
    \/ AppendPage
    \/ MainFetchError
    \/ MainNoRepos
    \/ MainStartPool
    \/ \E i \in Units : Submit(i)
    \/ \E i \in Units : TaskStart(i)
    \/ \E i \in Units, code \in PoolExitCodes : UpdateDone(i, code)
    \/ \E i \in Units, code \in PoolExitCodes : PullDone(i, code)
    \/ \E i \in Units : UpdateRaise(i)
    \/ \E i \in Units, code \in PoolExitCodes : CloneDone(i, code)
    \/ \E i \in Units : CloneRaise(i)
    \/ \E i \in Units : SleepDone(i)
    \/ \E i \in Units : PbarUpdate(i)
    \/ \E i \in Units : TaskReturn(i)
    \/ AsCompleted
    \/ \E i \in Units : Collect(i)
    \/ MainSummary
    \/ MainLogError

\* main started once; the checkout of repository 1 may already be there.
Init ==
    /\ include_archived \in BOOLEAN
    /\ pages \in PipelineListings(MaxUnits)
    /\ mirror \in BOOLEAN
    /\ args_workers \in ArgsWorkers
    /\ retries = DefaultRetries
    /\ use_ssh = FALSE /\ full = FALSE /\ shallow = FALSE
    /\ fs \in SUBSET {Target(1, mirror)}
    /\ run = 1 /\ prev_ok = {}
    /\ ListerStart /\ MainStart

Spec == Init /\ [][Next]_vars

\* main started without --include-archived and with a pool of one worker,
\* and then run again.
RerunInit ==
    /\ Init
    /\ args_workers = 0
    /\ include_archived = FALSE

RerunNext == Next \/ RunAgain

RerunSpec == RerunInit /\ [][RerunNext]_vars

\* main started once on an organization of at most one repository, with any
\* --workers value of ClampArgs.
ClampInit ==
    /\ include_archived \in BOOLEAN
    /\ pages \in PipelineListings(1)
    /\ mirror \in BOOLEAN
    /\ args_workers \in ClampArgs
    /\ retries = DefaultRetries
    /\ use_ssh = FALSE /\ full = FALSE /\ shallow = FALSE
    /\ fs \in SUBSET {Target(1, mirror)}
    /\ run = 1 /\ prev_ok = {}
    /\ ListerStart /\ MainStart

ClampSpec == ClampInit /\ [][Next]_vars

\* main started once with any of the flags --ssh, --full and --mirror on an
\* organization of at most one repository.
FlagsMainInit ==
    /\ include_archived \in BOOLEAN
    /\ pages \in PipelineListings(1)
    /\ mirror \in BOOLEAN
    /\ args_workers = 2
    /\ retries = DefaultRetries
    /\ use_ssh \in BOOLEAN /\ full \in BOOLEAN /\ shallow = FALSE
    /\ fs \in SUBSET {Target(1, mirror)}
    /\ run = 1 /\ prev_ok = {}
    /\ ListerStart /\ MainStart

\* task(r) submitted for repository 1 with any values of clone_one's
\* parameters use_ssh, shallow and mirror, outside a run of main (run = 0).
FlagsCallInit ==
    /\ include_archived = FALSE
    /\ pages = <<<<[name |-> 1, archived |-> "false"]>>>>
    /\ mirror \in BOOLEAN
    /\ args_workers = 1
    /\ retries = DefaultRetries
    /\ use_ssh \in BOOLEAN /\ full = FALSE /\ shallow \in BOOLEAN
    /\ fs \in SUBSET {Target(1, mirror)}
    /\ run = 0 /\ prev_ok = {}
    /\ lpc = "returned" /\ page = 0 /\ repos = pages[1] /\ reqlog = <<>>
    /\ mpc = "collect" /\ selected = <<1>> /\ workers = 1
    /\ results = <<>> /\ collected = <<>> /\ first_batch = {}
    /\ pbar_n = 0 /\ ok = 0 /\ failed = <<>> /\ log = <<>> /\ exit_code = -1
    /\ task = <<[NewTask EXCEPT !.pc = "queued"]>> /\ completed = <<>>

FlagsInit == FlagsMainInit \/ FlagsCallInit

FlagsSpec == FlagsInit /\ [][Next]_vars

\* =========================================================================
\* Properties
\* =========================================================================

InFlight(i) == task[i].pc \in {"update", "pull", "clone", "sleep", "returned"}
Returned(i) == task[i].pc = "returned" /\ ~task[i].bar
PoolDone == mpc = "exited" /\ selected # <<>>

\* The backoff sequence 5, 10, 20, ... of length n.
Backoff(n) == [k \in 1..n |-> InitialDelay * Pow2(k - 1)]

\* C1: whatever units fail (a clone that exhausts its retries, an exception
\* raised while invoking git), no unit is cancelled: when the pool has
\* finished every unit has finished, and results holds exactly one line per
\* descriptor, each unit's line exactly once.
C1_OneOutcomePerDescriptor ==
    PoolDone =>
        /\ \A i \in Units : task[i].pc = "finished"
        /\ Units = 1..Len(selected)
        /\ Len(results) = Len(selected)
        /\ Len(collected) = Len(selected)
        /\ \A i \in Units : Cardinality({k \in 1..Len(collected) : collected[k] = i}) = 1
        /\ \A k \in 1..Len(results) : results[k] = ResultLine(task[collected[k]].out)

\* C1 witness: the pool has finished with two units, one of which raised and
\* the other did not, and both have their line.
C1_Witness ==
    /\ PoolDone /\ Len(selected) = 2 /\ Len(results) = 2
    /\ \E i, j \in Units :
          /\ task[i].out.kind = "raised"
          /\ task[j].out.kind \in {"cloned", "failed"}

\* C2 as stated: no exception escapes clone_one; every call returns one of
\* cloned, updated or failed, and a failure carries a reason.
C2_Original ==
    \A i \in Units :
        Returned(i) =>
            /\ task[i].out.kind \in {"cloned", "updated", "failed"}
            /\ task[i].out.kind = "failed" =>
                   (task[i].out.code # NoCode \/ task[i].out.exc)

\* C2 amended: an exception raised in the update path never leaves clone_one
\* (the call goes on to the clone path); an exception leaves clone_one only
\* from a started clone attempt, and the orchestrator turns it into a failed
\* line that carries the exception and no repository name; a clone_one that
\* returns failed returns the name alone, with no reason.
C2_ExceptionsCaughtByOrchestrator ==
    /\ \A i \in Units :
          /\ (Returned(i) /\ task[i].out.kind = "raised") => task[i].nclone >= 1
          /\ task[i].upd = "raised" => task[i].pc \in {"clone", "sleep", "returned"}
          /\ (Returned(i) /\ task[i].upd = "raised") => task[i].nclone >= 1
          /\ (Returned(i) /\ task[i].out.kind = "failed") =>
                 task[i].out = [kind |-> "failed", name |-> NameOf(i),
                                code |-> NoCode, exc |-> FALSE]
    /\ \A k \in 1..Len(results) :
          /\ results[k].kind \in {"cloned", "updated", "failed"}
          /\ task[collected[k]].out.kind = "raised" =>
                 results[k] = [kind |-> "failed", name |-> NoName,
                               code |-> NoCode, exc |-> TRUE]
          /\ task[collected[k]].out.kind # "raised" =>
                 (results[k].name = NameOf(collected[k]) /\ ~results[k].exc)

\* C2 witness: a unit whose update raised and whose clone then raised has its
\* failed line in results.
C2_Witness ==
    \E k \in 1..Len(results) :
        /\ results[k].exc
        /\ task[collected[k]].out.kind = "raised"
        /\ \E i \in Units : Returned(i) /\ task[i].upd = "raised"

\* C3: a clone_one whose clone exits nonzero on exactly retries attempts and
\* zero on the next one returns cloned, having slept once per failed attempt:
\* 5, 10, 20, ..., in total 5 * (2^retries - 1) seconds.
C3_BackoffThenCloned ==
    \A i \in Units :
        (Returned(i) /\ task[i].attempt = retries /\ task[i].nclone = retries + 1
            /\ task[i].code = 0 /\ task[i].out.kind # "raised") =>
            /\ task[i].out = ClonedOutcome(NameOf(i))
            /\ task[i].sleeps = Backoff(retries)
            /\ SumSeq(task[i].sleeps) = InitialDelay * (Pow2(retries) - 1)

\* C3 witness: three failed attempts, then success on the fourth.
C3_Witness ==
    \E i \in Units :
        /\ Returned(i) /\ retries = 3 /\ task[i].attempt = 3
        /\ task[i].out.kind = "cloned" /\ SumSeq(task[i].sleeps) = 35

\* Every clone attempt the call made exited nonzero.
AllClonesFailed(i) == Returned(i) /\ task[i].nclone = task[i].attempt

\* Units whose line is a success, and the failure lines, when the pool is done.
SuccessUnits == {i \in Units : task[i].out.kind \in {"cloned", "updated"}}

SummaryAgrees ==
    PoolDone =>
        /\ ok = Cardinality(SuccessUnits)
        /\ \A i \in Units :
              task[i].out.kind = "failed" =>
                  /\ \E k \in 1..Len(failed) : failed[k].name = NameOf(i)
                  /\ i \notin SuccessUnits

\* C4 as stated: a repository whose clone always exits nonzero gets exactly
\* retries + 1 attempts and the outcome Failed(name, lastExitCode); it is in
\* the failure list and not in the success count.
C4_Original ==
    /\ \A i \in Units :
          (AllClonesFailed(i) /\ task[i].nclone >= 1) =>
              /\ task[i].nclone = retries + 1
              /\ task[i].out = [kind |-> "failed", name |-> NameOf(i),
                                code |-> task[i].code, exc |-> FALSE]
    /\ SummaryAgrees

\* C4 amended: a call that reaches the clone path and whose every clone
\* attempt exits nonzero makes exactly retries + 1 attempts and retries sleeps
\* (none after the last attempt) and returns failed with the name alone: the
\* line does not carry the exit code. Its name is in the failure list and it
\* is not counted as a success.
C4_ExhaustedRetriesFail ==
    /\ \A i \in Units :
          /\ (AllClonesFailed(i) /\ task[i].nclone >= 1) =>
                 /\ task[i].nclone = retries + 1
                 /\ Len(task[i].sleeps) = retries
                 /\ task[i].code # 0
                 /\ task[i].out = [kind |-> "failed", name |-> NameOf(i),
                                   code |-> NoCode, exc |-> FALSE]
          /\ task[i].pc = "sleep" => task[i].attempt <= retries
          /\ (Returned(i) /\ task[i].out.kind = "failed") => AllClonesFailed(i)
    /\ SummaryAgrees

\* C4 witness: the run has ended with a unit that failed by exhausting its
\* retries in the failure list and outside the success count.
C4_Witness ==
    /\ PoolDone /\ exit_code = 0
    /\ \E i \in Units : task[i].out.kind = "failed"
    /\ Len(failed) >= 1 /\ ok < Len(selected)

\* C5: in a later run against the same destination, every repository whose
\* outcome in the previous run was a success finds its target on disk, and
\* unless its update command fails or cannot be started it returns updated
\* without a single clone attempt.
C5_SecondRunUpdates ==
    \A i \in Units :
        (run >= 2 /\ NameOf(i) \in prev_ok /\ InFlight(i) /\ ~task[i].bar) =>
            /\ task[i].existed
            /\ (Returned(i) /\ task[i].upd \notin {"nonzero", "raised"}) =>
                   /\ task[i].out = UpdatedOutcome(NameOf(i))
                   /\ task[i].nclone = 0

\* C5 witness: in the second run a repository cloned in the first one
\* returns updated.
C5_Witness ==
    \E i \in Units :
        /\ run = 2 /\ NameOf(i) \in prev_ok /\ Returned(i)
        /\ task[i].out.kind = "updated"

\* What the listing holds, and what of it is not archived.
Listed == Flatten(pages)
NotArchived(r) == r.archived # "true"
Expected(incl) == IF incl THEN Listed ELSE SelectSeq(Listed, NotArchived)
ListedUpTo(n) == Flatten(SubSeq(pages, 1, n))
RequestsOf(n, resp) ==
    {k \in 1..Len(reqlog) : reqlog[k].page = n /\ reqlog[k].resp = resp}

\* C6: the lister stops at the empty page and asks for nothing after it, and
\* no descriptor is emitted twice: every non-empty page is appended exactly
\* once, in order.
C6_StopsAtEmptyPageNoDuplicates ==
    /\ \A a, b \in 1..Len(repos) : a # b => repos[a].name # repos[b].name
    /\ \A n \in 1..Len(pages) :
          Cardinality(RequestsOf(n, "data")) = (IF n < page THEN 1 ELSE 0)
    /\ \A k \in 1..Len(reqlog) :
          reqlog[k].resp = "empty" => (k = Len(reqlog) /\ lpc = "returned")
    /\ lpc = "returned" =>
          /\ reqlog[Len(reqlog)] = [page |-> Len(pages) + 1, resp |-> "empty"]
          /\ page = Len(pages) + 1
          /\ Len(repos) <= Len(Listed)
          /\ ~ENABLED ListNext

\* C6 witness: a listing of three pages has been read to its empty page.
C6_Witness ==
    /\ lpc = "returned" /\ Len(pages) = 3 /\ Len(repos) = 3
    /\ reqlog[Len(reqlog)].resp = "empty"

\* C7: after a rate-limited response the next request is for the same page,
\* with the page counter and the accumulated list as they were and the
\* listing still going; however many rate-limited responses there are, the
\* list returned is the one returned without any.
C7_RateLimitRetriesSamePage ==
    /\ \A k \in 1..Len(reqlog) :
          reqlog[k].resp = "rate_limited" =>
              IF k < Len(reqlog)
              THEN reqlog[k + 1].page = reqlog[k].page
              ELSE lpc = "request" /\ page = reqlog[k].page
    /\ repos = SelectSeq(ListedUpTo(page - 1),
                         LAMBDA r : include_archived \/ NotArchived(r))
    /\ lpc = "returned" => repos = Expected(include_archived)

\* C7 witness: the listing has returned its full list after two rate-limited
\* responses in a row for the second page.
C7_Witness ==
    /\ lpc = "returned" /\ Len(repos) >= 2
    /\ \E k \in 1..(Len(reqlog) - 2) :
          /\ reqlog[k].resp = "rate_limited" /\ reqlog[k].page = 2
          /\ reqlog[k + 1].resp = "rate_limited"
          /\ reqlog[k + 2].resp = "data"

\* C8: without include_archived the list returned has no descriptor whose
\* archived flag is true and every other descriptor of the listing; with it
\* the list is the whole listing, which holds the other list and is larger
\* exactly when the listing has an archived entry.
C8_ArchivedFilter ==
    lpc = "returned" =>
        /\ ~include_archived =>
              /\ \A k \in 1..Len(repos) : repos[k].archived # "true"
              /\ \A k \in 1..Len(Listed) :
                    Listed[k].archived # "true" => Listed[k] \in Range(repos)
              /\ repos = SelectSeq(Listed, NotArchived)
        /\ include_archived =>
              /\ repos = Listed
              /\ Range(SelectSeq(Listed, NotArchived)) \subseteq Range(repos)
              /\ (Len(repos) > Len(SelectSeq(Listed, NotArchived)))
                    <=> (\E k \in 1..Len(Listed) : Listed[k].archived = "true")

\* C8 witness: a listing with an archived entry and one with no flag, read
\* without include_archived.
C8_Witness ==
    /\ lpc = "returned" /\ ~include_archived
    /\ \E a, b \in 1..Len(Listed) :
          Listed[a].archived = "true" /\ Listed[b].archived = "null"
    /\ Len(repos) = Len(Listed) - 1

\* The pool size the command line asks for, clamped to 1..16.
Clamped(w) == IF w < 1 THEN 1 ELSE IF w > 16 THEN 16 ELSE w

\* No pool exists and no unit of work was ever handed out.
NoPool == workers = 0 /\ task = <<>> /\ results = <<>> /\ pbar_n = 0 /\ completed = <<>>

\* C9 as stated: after a fatal listing response no pool is created, no git
\* command is started and the exit code is 2; whenever the listing succeeds
\* the exit code is 0.
C9_Original ==
    /\ lpc = "raised" => (NoPool /\ (mpc = "exited" => exit_code = 2))
    /\ (mpc = "exited" /\ lpc = "returned") => exit_code = 0

\* C9 amended: after a fatal listing response no pool is created, no git
\* command is started and the exit code is 2; when the listing succeeds the
\* exit code is 0 whatever the number of failed lines, unless writing the
\* summary log raises, which ends the process with status 1 after the
\* cloning is done and leaves a log that lacks at least the end of the last
\* line: some of the first lines, then at most a fragment of the next one.
C9_ListingErrorAborts ==
    /\ lpc = "raised" => (NoPool /\ (mpc = "exited" => exit_code = 2))
    /\ exit_code = 2 => lpc = "raised"
    /\ (mpc = "exited" /\ lpc = "returned") =>
          \/ exit_code = 0 /\ log = results
          \/ /\ exit_code = 1 /\ results # <<>> /\ Collected = Units
             /\ Len(log) <= Len(results) /\ log # results
             /\ \A k \in 1..Len(log) :
                   \/ log[k] = results[k]
                   \/ k = Len(log) /\ log[k].kind = "fragment"
                          /\ log[k].name = results[k].name

\* C9 witness: the second request of a listing failed after the first page
\* had been read, and the process has exited with 2 without a pool.
C9_Witness ==
    /\ mpc = "exited" /\ exit_code = 2 /\ Len(repos) >= 1 /\ NoPool

\* C10: never more units inside clone_one than the clamped --workers value;
\* a unit asleep in its backoff holds back no other unit: any other unit
\* that is running can take its next step, and the oldest queued unit can
\* start whenever a worker is free.
C10_BoundedConcurrency ==
    /\ Cardinality(Running) <= Clamped(args_workers)
    /\ mpc \in {"submit", "as_completed", "collect"} => workers = Clamped(args_workers)
    /\ \A i, j \in Units :
          (i # j /\ task[i].pc = "sleep") =>
              /\ task[j].pc = "clone" => ENABLED CloneDone(j, 0)
              /\ task[j].pc = "update" => ENABLED UpdateDone(j, 0)
              /\ task[j].pc = "sleep" => ENABLED SleepDone(j)
              /\ task[j].pc = "returned" =>
                    ENABLED PbarUpdate(j) \/ ENABLED TaskReturn(j)
              /\ (task[j].pc = "queued" /\ Cardinality(Running) < Clamped(args_workers)
                    /\ \A m \in Queued : j <= m) => ENABLED TaskStart(j)
              /\ (task[j].pc = "queued" /\ Cardinality(Running) = Clamped(args_workers))
                    => ~ENABLED TaskStart(j)

\* C10 witness: with two workers the first unit is asleep in its first
\* backoff while the second is already past its own first backoff.
C10_Witness ==
    /\ args_workers = 2 /\ Len(selected) = 2
    /\ task[1].pc = "sleep" /\ task[1].sleeps = <<>>
    /\ task[2].pc = "clone" /\ task[2].sleeps = <<5>>

\* C11: under every interleaving the progress counter counts the units that
\* have completed: it is at least the number of futures that are done and at
\* most the number of units whose clone_one has ended (the increment comes
\* between the two), and it equals the number of descriptors once the pool
\* is done, also for units that end in failure.
C11_Original ==
    /\ Cardinality(Finished) <= pbar_n
    /\ pbar_n <= Cardinality({i \in Units : task[i].pc \in {"returned", "finished"}})
    /\ PoolDone => pbar_n = Len(selected)

\* C12: the summary is a fold that leaves the results alone: ok is the
\* number of cloned and updated lines, failed holds exactly the failed lines
\* in their order, ok plus the length of failed is the number of lines, which
\* is the number of descriptors, and the log written by a run that returns
\* holds exactly one line per outcome, the outcome's own.
C12_SummaryIsFold ==
    PoolDone =>
        /\ ok = Cardinality({k \in 1..Len(results) :
                                results[k].kind \in {"cloned", "updated"}})
        /\ failed = SelectSeq(results, LAMBDA r : r.kind = "failed")
        /\ ok + Len(failed) = Len(results)
        /\ Len(results) = Len(selected)
        /\ \A k \in 1..Len(results) : results[k] = ResultLine(task[collected[k]].out)
        /\ exit_code = 0 => log = results /\ Len(log) = Len(selected)

\* C12 witness: every repository of the organization was cloned into a
\* destination that held none of them; all count as successes, none as a
\* failure, and the log has one cloned line for each.
C12_Witness ==
    /\ PoolDone /\ exit_code = 0 /\ Len(selected) = MaxUnits
    /\ ok = Len(selected) /\ failed = <<>> /\ Len(log) = Len(selected)
    /\ \A k \in 1..Len(log) : log[k].kind = "cloned"

\* C13: the pool is created with max(1, min(w, 16)) workers for the --workers
\* value w: 1 for every w <= 0, 16 for every w >= 16, and w itself for every
\* w from 1 to 16; the pool never runs more units than that.
C13_WorkersClamped ==
    selected # <<>> =>
        /\ args_workers <= 0 => workers = 1
        /\ args_workers >= 16 => workers = 16
        /\ args_workers \in 1..16 => workers = args_workers
        /\ workers \in 1..16
        /\ Cardinality(Running) <= workers

\* C13 witness: a negative --workers value, and the single unit of the run is
\* inside clone_one on the one worker of the pool.
C13_Witness ==
    /\ args_workers < 0 /\ workers = 1
    /\ \E i \in Units : task[i].pc = "clone"

\* C14: the names of a listing being distinct, selected holds each listed
\* repository once and in order, a unit is handed to the pool once (it never
\* goes back to unsubmitted or queued), and no two units that are inside
\* clone_one at the same time have the same target path.
C14_NoSharedTarget ==
    /\ [](\A i, j \in Units :
            (i # j /\ InFlight(i) /\ InFlight(j)) =>
                Target(NameOf(i), mirror) # Target(NameOf(j), mirror))
    /\ [](selected # <<>> =>
            /\ Len(selected) = Len(repos) /\ Units = 1..Len(repos)
            /\ \A k \in 1..Len(repos) : selected[k] = repos[k].name)
    /\ [][\A i \in Units :
            /\ task[i].pc # "unsubmitted" => task'[i].pc # "unsubmitted"
            /\ task[i].pc \notin {"unsubmitted", "queued"} => task'[i].pc # "queued"]_vars

\* C14 witness: two workers are cloning two repositories at the same time.
C14_Witness ==
    /\ workers >= 2 /\ Len(selected) = 2
    /\ task[1].pc = "clone" /\ task[2].pc = "clone"

\* The calls of run_git_cmd a unit has made so far, and their kinds.
Calls(i) == task[i].cmds
IsFetch(c) == c.argv = UpdateArgv(FALSE)
IsRemoteUpdate(c) == c.argv = UpdateArgv(TRUE)
IsPull(c) == c.argv = PullArgv
IsClone(c) == c.argv[2] = "clone"
ExitedZero(c) == ~c.exc /\ c.code = 0
NoCloneIn(cs) == \A k \in 1..Len(cs) : ~IsClone(cs[k])

\* The order of fetch and pull for a target that exists, mirror off: the
\* fetch is the first call, a pull is the second call and follows a fetch
\* that exited zero, and a pull is what follows such a fetch.
FetchThenPull(i) ==
    LET c == Calls(i) IN
    /\ c # <<>> => IsFetch(c[1])
    /\ \A k \in 1..Len(c) : IsPull(c[k]) => k = 2 /\ ExitedZero(c[1])
    /\ task[i].pc = "pull" <=> (Len(c) = 1 /\ ExitedZero(c[1]))
    /\ (Len(c) >= 2 /\ ExitedZero(c[1])) => IsPull(c[2])

\* C15 as stated: with the target there and mirror off, fetch comes first and
\* pull only after a fetch that exited zero, never in mirror mode; whenever
\* the fetch exited zero no clone is attempted and the outcome is updated.
C15_Original ==
    \A i \in Units :
        /\ mirror => \A k \in 1..Len(Calls(i)) : ~IsPull(Calls(i)[k])
        /\ (task[i].existed /\ ~mirror) =>
              /\ FetchThenPull(i)
              /\ (Calls(i) # <<>> /\ ExitedZero(Calls(i)[1])) =>
                    /\ NoCloneIn(Calls(i))
                    /\ Returned(i) => task[i].out = UpdatedOutcome(NameOf(i))

\* C15: with the target there and mirror off, fetch comes first and pull only
\* after a fetch that exited zero, never in mirror mode; whenever the fetch
\* exited zero and the pull returned, whatever its exit status, clone_one
\* returns updated at once and no clone is attempted; a fetch that exited
\* nonzero is followed by clone attempts and never by a pull.
C15_PullOnlyAfterFetch ==
    \A i \in Units :
        /\ mirror => \A k \in 1..Len(Calls(i)) : ~IsPull(Calls(i)[k])
        /\ ~task[i].existed => \A k \in 1..Len(Calls(i)) : IsClone(Calls(i)[k])
        /\ (task[i].existed /\ ~mirror) =>
              /\ FetchThenPull(i)
              /\ (Len(Calls(i)) >= 2 /\ ExitedZero(Calls(i)[1]) /\ ~Calls(i)[2].exc) =>
                    /\ Len(Calls(i)) = 2
                    /\ Returned(i) /\ task[i].out = UpdatedOutcome(NameOf(i))
              /\ (Len(Calls(i)) >= 2 /\ ~ExitedZero(Calls(i)[1])) =>
                    \A k \in 2..Len(Calls(i)) : IsClone(Calls(i)[k])

\* C15 witness: the fetch exited zero, the pull exited nonzero, and clone_one
\* has returned updated after these two calls.
C15_Witness ==
    \E i \in Units :
        /\ task[i].existed /\ ~mirror /\ Returned(i)
        /\ Len(Calls(i)) = 2
        /\ IsFetch(Calls(i)[1]) /\ ExitedZero(Calls(i)[1])
        /\ IsPull(Calls(i)[2]) /\ ~Calls(i)[2].exc /\ Calls(i)[2].code # 0
        /\ task[i].out = UpdatedOutcome(NameOf(i))

\* The last call a unit has made.
LastCall(i) == Calls(i)[Len(Calls(i))]

\* C16: when the fetch, the pull or the mirror's remote update raises, the
\* unit goes on with the clone path: it enters the retry loop with attempt 0
\* and delay 5, every later call is a clone, and clone_one ends only after
\* a clone attempt, with the outcome that attempt and the retry limit
\* decide: the fault of the update step is never the outcome.
C16_UpdateFaultSwallowed ==
    \A i \in Units :
        \A k \in 1..Len(Calls(i)) :
            (Calls(i)[k].exc /\ ~IsClone(Calls(i)[k])) =>
                /\ task[i].existed
                /\ IF mirror THEN k = 1 /\ IsRemoteUpdate(Calls(i)[k])
                   ELSE \/ k = 1 /\ IsFetch(Calls(i)[k])
                        \/ k = 2 /\ IsPull(Calls(i)[k])
                /\ \A m \in (k + 1)..Len(Calls(i)) : IsClone(Calls(i)[m])
                /\ task[i].pc \in {"clone", "sleep", "returned"}
                /\ Len(Calls(i)) = k =>
                      task[i].pc = "clone" /\ task[i].attempt = 0
                          /\ task[i].delay = InitialDelay
                /\ task[i].nclone = Len(Calls(i)) - k
                /\ Returned(i) =>
                      /\ Len(Calls(i)) > k
                      /\ ExitedZero(LastCall(i)) => task[i].out = ClonedOutcome(NameOf(i))
                      /\ LastCall(i).exc => task[i].out = Raised
                      /\ (~LastCall(i).exc /\ LastCall(i).code # 0) =>
                            /\ task[i].out = FailedOutcome(NameOf(i), LastCall(i).code)
                            /\ task[i].nclone = retries + 1

\* C16 witness: the fetch exited zero and the pull raised; the first clone
\* attempt exited nonzero, the unit slept 5 seconds, and the second attempt
\* cloned the repository.
C16_Witness ==
    \E i \in Units :
        /\ Returned(i) /\ Len(Calls(i)) = 4
        /\ IsFetch(Calls(i)[1]) /\ ExitedZero(Calls(i)[1])
        /\ IsPull(Calls(i)[2]) /\ Calls(i)[2].exc
        /\ IsClone(Calls(i)[3]) /\ ~ExitedZero(Calls(i)[3])
        /\ IsClone(Calls(i)[4]) /\ ExitedZero(Calls(i)[4])
        /\ task[i].sleeps = <<InitialDelay>>
        /\ task[i].out = ClonedOutcome(NameOf(i))

\* C17: every clone call is git clone with --mirror alone when mirror is set,
\* with --depth 1 --no-single-branch when shallow is set and mirror is not,
\* and with no option otherwise; it names the ssh url when use_ssh is set and
\* the https url otherwise; its target is the repository's name with the
\* .git suffix exactly when mirror is set; and in a run of main shallow is
\* not args.full and not args.mirror, so that mirror excludes shallow.
C17_CloneInvocation ==
    /\ \A i \in Units :
          \A k \in 1..Len(Calls(i)) :
              IsClone(Calls(i)[k]) =>
                  /\ Calls(i)[k].argv =
                        IF mirror THEN <<"git", "clone", "--mirror">>
                        ELSE IF shallow
                             THEN <<"git", "clone", "--depth", "1", "--no-single-branch">>
                             ELSE <<"git", "clone">>
                  /\ Calls(i)[k].url[1] = IF use_ssh THEN "ssh" ELSE "https"
                  /\ Calls(i)[k].url[2] = NameOf(i)
                  /\ Calls(i)[k].dir[1] = NameOf(i)
                  /\ Calls(i)[k].dir[2] = mirror
    /\ run >= 1 =>
          /\ mirror => ~shallow
          /\ shallow => ~full
          /\ task # <<>> => (shallow <=> (~full /\ ~mirror))

\* C17 witness: clone_one was called with use_ssh, shallow and mirror all
\* set, and its clone call was a mirror clone of the ssh url into name.git.
C17_Witness ==
    /\ use_ssh /\ shallow /\ mirror
    /\ \E i \in Units :
          /\ Calls(i) # <<>> /\ IsClone(LastCall(i))
          /\ LastCall(i).argv = <<"git", "clone", "--mirror">>
          /\ LastCall(i).url = <<"ssh", NameOf(i)>>
          /\ LastCall(i).dir = <<NameOf(i), TRUE>>

\* No unit occurs twice in the sequence.
Injective(s) == \A k, m \in 1..Len(s) : s[k] = s[m] => k = m

\* Every line of results is the line of the unit collected at that position,
\* no unit is collected twice, and only finished units are collected.
OneLinePerCollected ==
    /\ Len(results) = Len(collected)
    /\ Injective(collected) /\ Injective(completed)
    /\ Range(collected) \subseteq Range(completed)
    /\ \A k \in 1..Len(results) : results[k] = ResultLine(task[collected[k]].out)
    /\ PoolDone => Range(collected) = Units /\ Len(results) = Len(selected)

\* C18 as stated: results lists the outcomes in the order the units
\* completed, one per descriptor, none lost and none twice.
C18_Original ==
    /\ OneLinePerCollected
    /\ \A k \in 1..Len(collected) : collected[k] = completed[k]

\* C18: results gets one line per descriptor, none lost and none twice, in
\* the order as_completed yields the units, which need not be input order:
\* the units that had finished when the loop began come first, in any order,
\* and the others follow in the order they completed.
C18_ResultsAsYielded ==
    /\ [](OneLinePerCollected)
    /\ [](\E n \in 0..Len(completed) :
            \A k \in 1..Len(collected) :
                IF k <= n THEN \E m \in 1..n : collected[k] = completed[m]
                ELSE collected[k] = completed[k])
    /\ [][collected' # collected =>
            \E i \in Units :
                /\ collected' = Append(collected, i)
                /\ results' = Append(results, ResultLine(task[i].out))
                /\ i \notin Collected
                /\ IF first_batch # {} THEN i \in first_batch
                   ELSE \E k \in 1..Len(completed) :
                           /\ completed[k] = i
                           /\ \A m \in 1..(k - 1) : completed[m] \in Collected]_vars

\* C18 witness: the second repository completed first and the first one
\* after it; results holds their two lines in that order.
C18_Witness ==
    /\ PoolDone /\ completed = <<2, 1>> /\ collected = <<2, 1>>
    /\ Len(results) = 2
    /\ results[1].name \in {2, NoName} /\ results[2].name \in {1, NoName}

\* The update command of the mode: remote update for a mirror, fetch otherwise.
IsUpdateCommand(c) == IF mirror THEN IsRemoteUpdate(c) ELSE IsFetch(c)

\* C19: clone_one returns updated only for a target that existed at entry
\* and whose update command exited zero, and cloned only when its last call
\* was a clone that exited zero. When the target exists and the update
\* command exits nonzero, clone_one does not return at once: it runs the
\* clone command against the existing target, up to retries + 1 times, and
\* returns cloned or failed (or the clone's own exception leaves it) as those
\* attempts decide, never updated.
C19_OutcomeProvenance ==
    \A i \in Units :
        /\ (Returned(i) /\ task[i].out.kind = "updated") =>
              /\ task[i].existed
              /\ IsUpdateCommand(Calls(i)[1]) /\ ExitedZero(Calls(i)[1])
              /\ NoCloneIn(Calls(i))
        /\ (Returned(i) /\ task[i].out.kind = "cloned") =>
              IsClone(LastCall(i)) /\ ExitedZero(LastCall(i))
        /\ (task[i].existed /\ Calls(i) # <<>> /\ ~Calls(i)[1].exc
                /\ Calls(i)[1].code # 0) =>
              /\ IsUpdateCommand(Calls(i)[1])
              /\ task[i].pc \in {"clone", "sleep", "returned"}
              /\ \A k \in 2..Len(Calls(i)) :
                    /\ IsClone(Calls(i)[k])
                    /\ Calls(i)[k].dir = Target(NameOf(i), mirror)
              /\ \A k \in 2..(Len(Calls(i)) - 1) : ~ExitedZero(Calls(i)[k])
              /\ Len(Calls(i)) <= retries + 2
              /\ Returned(i) =>
                    /\ Len(Calls(i)) >= 2
                    /\ task[i].out.kind \in {"cloned", "failed", "raised"}
                    /\ ResultLine(task[i].out).kind \in {"cloned", "failed"}
                    /\ task[i].out.kind = "cloned" <=> ExitedZero(LastCall(i))
                    /\ task[i].out.kind = "raised" <=> LastCall(i).exc
                    /\ task[i].out.kind = "failed" =>
                          Len(Calls(i)) = retries + 2

\* C19 witness: the target existed, its update command exited nonzero, and
\* every one of the retries + 1 clone attempts against it exited nonzero:
\* clone_one returned failed.
C19_Witness ==
    \E i \in Units :
        /\ retries >= 1 /\ task[i].existed /\ Returned(i)
        /\ IsUpdateCommand(Calls(i)[1]) /\ ~Calls(i)[1].exc /\ Calls(i)[1].code # 0
        /\ Len(Calls(i)) = retries + 2
        /\ \A k \in 2..Len(Calls(i)) : IsClone(Calls(i)[k]) /\ ~ExitedZero(Calls(i)[k])
        /\ task[i].out = FailedOutcome(NameOf(i), LastCall(i).code)
        /\ Target(NameOf(i), mirror) \in fs

\* C20: when the listing returns no repository (the organization has none,
\* or all are archived and --include-archived is not given), main returns at
\* once: no pool and no unit of work exist, no git command was run, nothing
\* was counted or written to a log, and the exit code is 0; main never
\* enters the pool's phases from such a listing.
C20_EmptyListingEndsRun ==
    (lpc = "returned" /\ repos = <<>>) =>
        /\ mpc \in {"fetch", "exited"}
        /\ NoPool /\ selected = <<>> /\ shallow = FALSE
        /\ collected = <<>> /\ first_batch = {}
        /\ ok = 0 /\ failed = <<>> /\ log = <<>>
        /\ mpc = "exited" => exit_code = 0
        /\ mpc = "fetch" => exit_code = -1 /\ ENABLED MainNoRepos /\ ~ENABLED MainStartPool

\* C20 witness: every repository of the organization is archived and
\* --include-archived is not given; the run has ended with exit code 0.
C20_Witness ==
    /\ ~include_archived /\ pages # <<>> /\ Len(pages[1]) = MaxUnits
    /\ \A k \in 1..Len(pages[1]) : pages[1][k].archived = "true"
    /\ lpc = "returned" /\ repos = <<>>
    /\ mpc = "exited" /\ exit_code = 0 /\ NoPool /\ log = <<>>

====
